---- MODULE Spec2Model ----
(***************************************************************************)
(* Custom-domain connection orchestrator of site-replicator: the Domain    *)
(* model (models/Domain), the DomainService (DNS, Nginx, Certbot), the     *)
(* /api domain routes and the CronService jobs.                            *)
(*                                                                         *)
(* A domain name is the sequence of its dot-separated labels               *)
(* ("www.shop.com" is <<"www","shop","com">>); the text a process prints   *)
(* is the set of the phrases it contains (the code only tests              *)
(* `includes`); dates are whole days.                                      *)
(***************************************************************************)
EXTENDS Integers, Sequences, FiniteSets, TLC

-----------------------------------------------------------------------------
(* Bounds of the model *)

\* last day the clock reaches
MaxDay == 8
\* days the clock advances in one step
TickStep == 8

-----------------------------------------------------------------------------
(* Program constants *)

\* retry cap of findPendingDomains and cleanupOldDomains
RetryCap == 10
\* cleanupOldDomains: cutoffDate = now - 7 days
CleanupDays == 7
\* findExpiringSSL(30)
ExpiryWindowDays == 30
\* metadata.retryCount default
RetryCountDefault == 0

\* sslExpiry default (null), as a day
NoDate == -1
\* errorMessage default (null)
NoMessage == "null"

ServerIP == "203.0.113.10"
OtherIP == "198.51.100.7"

-----------------------------------------------------------------------------
(* Inputs *)

\* request bodies / route parameters: << >> is a missing domain
RawDomains ==
  { << >>,
    <<"Shop", "COM">>, <<"www", "shop", "com">>,
    <<"www", "com">>,
    <<"broken", "test">>,
    <<"shop", "c">> }

\* route parameters of the verify, delete and renew-ssl routes
RouteDomains == { <<"Shop", "COM">>, <<"www", "shop", "com">>, <<"broken", "test">> }

\* domains whose A record never points to this server
Unresolving == { <<"broken", "test">> }

\* "" is a missing siteSlug
RawSlugs == {"", "site-1", "bad slug"}

\* the day certbot reports as "Expiry Date": more than ExpiryWindowDays
\* ahead of day 0, within them later
CertExpiryDay == 35
ExpiryDates == {CertExpiryDay}

-----------------------------------------------------------------------------
(* Strings *)

\* String.prototype.toLowerCase on one label
LowerLabel(l) ==
  CASE l = "Shop" -> "shop"
    [] l = "COM" -> "com"
    [] l = "WWW" -> "www"
    [] OTHER -> l

ToLowerCase(d) == [i \in DOMAIN d |-> LowerLabel(d[i])]

\* d.replace(/^www\./, ''): the text starts with "www." iff its first label
\* is "www" and a dot follows it
StripWww(d) ==
  IF Len(d) >= 2 /\ d[1] = "www" THEN SubSeq(d, 2, Len(d)) ELSE d

\* domain.toLowerCase().replace(/^www\./, '')
Normalize(d) == StripWww(ToLowerCase(d))

\* !domain: undefined or ''
FalsyDomain(d) == d = << >> \/ d = <<"">>

\* labels matching [a-zA-Z0-9][a-zA-Z0-9-]{0,61}[a-zA-Z0-9]?
FirstLabelOk(l) ==
  l \in {"shop", "Shop", "com", "COM", "www", "WWW", "c", "broken", "test"}
\* labels matching [a-zA-Z]{2,}
AlphaLabel2(l) ==
  l \in {"shop", "Shop", "com", "COM", "www", "WWW", "broken", "test"}

\* domainSchema.domain.validate
ValidDomain(d) ==
  /\ Len(d) \in {2, 3}
  /\ FirstLabelOk(d[1])
  /\ \A i \in 2..Len(d) : AlphaLabel2(d[i])

\* domainSchema.siteSlug.validate: /^[a-zA-Z0-9_-]+$/
ValidSlug(s) == s \in {"site-1"}

\* faulty variant: a domain of three labels counts as an apex too
isApexDomainUpTo3(d) == Len(d) <= 3

\* DomainService.isApexDomain
isApexDomain(d) == Len(d) = 2

-----------------------------------------------------------------------------
VARIABLES
  strictQuery,  \* Mongoose's strictQuery option of the build (version default)
  store,        \* the domains collection: a set of documents
  now,          \* the clock, in days
  dnsEverTrue,  \* history: valid domains for which verifyDNS has returned true
  calls,        \* DNS lookups, file operations and processes of the last operation
  res,          \* what the last operation returned
  procs,        \* operations in progress: the call each one awaits, its document
  server,       \* Nginx site configurations and certificates on the machine
  sched         \* CronService: isRunning, its tasks, the timer of the initial checks

vars == <<strictQuery, store, now, dnsEverTrue, calls, res, procs, server, sched>>

-----------------------------------------------------------------------------
(* External calls *)

\* one DNS lookup, file operation or process run made for `domain` by `fn`;
\* ok: it did not fail (exit status 0; for the lookup: the server's address
\* was among the answers); date: the expiry date an expiry query returned
Ev(fn, cmd, domain, ok) ==
  [fn |-> fn, cmd |-> cmd, domain |-> domain, ok |-> ok, date |-> NoDate]

\* outcomes of dns.resolve4
ResolveRuns ==
  { [err |-> FALSE, addresses |-> {OtherIP, ServerIP}],
    [err |-> FALSE, addresses |-> {OtherIP}],
    [err |-> TRUE, addresses |-> {}] }

\* outcomes of dns.resolve4(cleanDomain)
ResolveRunsOf(cleanDomain) ==
  IF cleanDomain \in Unresolving
    THEN {rr \in ResolveRuns : ServerIP \notin rr.addresses}
    ELSE ResolveRuns

\* outcomes of `sudo nginx -t`
TestOk == [exit |-> 0, stderr |-> {"syntax is ok", "test is successful"}]
NginxTests ==
  { TestOk,
    [exit |-> 0, stderr |-> {"[warn] conflicting server name"}],
    [exit |-> 1, stderr |-> {"[emerg] unexpected end of file", "test failed"}] }

\* outcomes of the steps of createNginxConfig: fs.writeFile, fs.symlink,
\* nginx -t, nginx -s reload
NginxOk == [write |-> TRUE, symlink |-> TRUE, test |-> TestOk, reload |-> TRUE]
\* a step that is not reached has its first outcome
NginxRuns ==
  {run \in [write : BOOLEAN, symlink : BOOLEAN, test : NginxTests, reload : BOOLEAN] :
     /\ ~run.write => run.symlink
     /\ ~(run.write /\ run.symlink) => run.test = TestOk
     /\ ~(run.write /\ run.symlink /\ run.test.exit = 0) => run.reload}

\* outcomes of `sudo certbot --nginx ...` and `sudo certbot renew ...`
Deployed == "Successfully deployed certificate"
IssueNotDue == "Certificate not yet due for renewal"
RenewNotDue == "not yet due for renewal"
CertbotOk == [exit |-> 0, stdout |-> {Deployed}]
CertbotRuns ==
  { CertbotOk,
    [exit |-> 0, stdout |-> {IssueNotDue}],
    [exit |-> 0, stdout |-> {"Some challenges have failed"}],
    [exit |-> 1, stdout |-> {"Some challenges have failed"}] }

\* String.prototype.includes on a text given as the set of its phrases
Includes(text, phrase) ==
  \E p \in text :
    \/ p = phrase
    \/ p = IssueNotDue /\ phrase = RenewNotDue

\* outcomes of `sudo certbot certificates -d`: expiry is the date of the
\* "Expiry Date: " line, NoDate when the output has no such line
ExpiryNone == [exit |-> 0, expiry |-> NoDate]
ExpiryRuns ==
  {[exit |-> 1, expiry |-> NoDate], ExpiryNone}
    \cup {[exit |-> 0, expiry |-> d] : d \in ExpiryDates}

\* what getDomainStatus finds on disk: the site enabled and its certificate,
\* or neither
LiveRuns ==
  {[access |-> TRUE, q |-> [exit |-> 0, expiry |-> d]] : d \in ExpiryDates}
    \cup {[access |-> FALSE, q |-> ExpiryNone]}

\* outcomes of removeDomainConfig's steps: none fails, one fails, all fail
TeardownRuns ==
  {t \in [certDelete : BOOLEAN, unlinkEnabled : BOOLEAN,
          unlinkConfig : BOOLEAN, reload : BOOLEAN] :
     Cardinality({f \in DOMAIN t : ~t[f]}) \in {0, 1, 4}}

-----------------------------------------------------------------------------
(* DomainService: each operator gives the value returned (ret) and the     *)
(* external calls made (calls)                                             *)

\* faulty variant: the lookup uses the domain as given
verifyDNSNoStrip(domain, rr) ==
  LET isCorrect == IF rr.err THEN FALSE ELSE ServerIP \in rr.addresses
  IN  [ret   |-> isCorrect,
       calls |-> <<Ev("verifyDNS", "resolve4", domain, isCorrect)>>]

verifyDNS(domain, rr) ==
  LET cleanDomain == StripWww(domain)
      isCorrect == IF rr.err THEN FALSE ELSE ServerIP \in rr.addresses
  IN  [ret   |-> isCorrect,
       calls |-> <<Ev("verifyDNS", "resolve4", cleanDomain, isCorrect)>>]

\* TRUE: returns true; FALSE: throws
testNginxConfig(t) ==
  /\ t.exit = 0
  /\ ~(t.stderr # {} /\ ~Includes(t.stderr, "test is successful"))

\* faulty variant: the result of the configuration test is ignored
createNginxConfigNoGate(domain, siteSlug, run) ==
  LET fn == "createNginxConfig"
      w  == <<Ev(fn, "writeFile", domain, run.write)>>
      l  == <<Ev(fn, "unlink", domain, TRUE), Ev(fn, "symlink", domain, run.symlink)>>
      t  == <<Ev(fn, "nginx -t", domain, run.test.exit = 0)>>
      r  == <<Ev(fn, "nginx -s reload", domain, run.reload)>>
  IN  IF ~run.write THEN [ret |-> FALSE, calls |-> w]
      ELSE IF ~run.symlink THEN [ret |-> FALSE, calls |-> w \o l]
      ELSE [ret |-> run.reload, calls |-> w \o l \o t \o r]

createNginxConfig(domain, siteSlug, run) ==
  LET fn == "createNginxConfig"
      w  == <<Ev(fn, "writeFile", domain, run.write)>>
      l  == <<Ev(fn, "unlink", domain, TRUE), Ev(fn, "symlink", domain, run.symlink)>>
      t  == <<Ev(fn, "nginx -t", domain, run.test.exit = 0)>>
      r  == <<Ev(fn, "nginx -s reload", domain, run.reload)>>
  IN  IF ~run.write THEN [ret |-> FALSE, calls |-> w]
      ELSE IF ~run.symlink THEN [ret |-> FALSE, calls |-> w \o l]
      ELSE IF ~testNginxConfig(run.test) THEN [ret |-> FALSE, calls |-> w \o l \o t]
      ELSE [ret |-> run.reload, calls |-> w \o l \o t \o r]

getCertificateExpiry(domain, q) ==
  LET expiry == IF q.exit # 0 THEN NoDate ELSE q.expiry
  IN  [ret   |-> expiry,
       calls |-> <<[Ev("getCertificateExpiry", "certbot certificates", domain, q.exit = 0)
                      EXCEPT !.date = expiry]>>]

\* the names of the certificate request
CertNames(domain) ==
  IF isApexDomain(domain) THEN {domain, <<"www">> \o domain} ELSE {domain}

\* the server_name line of generateNginxConfig
ServerNames(domain) ==
  LET isApex == isApexDomain(domain)
  IN  IF isApex THEN {domain, <<"www">> \o domain} ELSE {domain}

\* faulty variant: every run that exits with status 0 counts as success
issueSSLCertificateOnExit(domain, cb, q1) ==
  LET c == <<Ev("issueSSLCertificate", "certbot --nginx", domain, cb.exit = 0)>>
  IN  IF cb.exit # 0 THEN [ret |-> FALSE, calls |-> c]
      ELSE [ret |-> TRUE, calls |-> c \o getCertificateExpiry(domain, q1).calls]

issueSSLCertificate(domain, cb, q1) ==
  LET c == <<Ev("issueSSLCertificate", "certbot --nginx", domain, cb.exit = 0)>>
      success == Includes(cb.stdout, Deployed) \/ Includes(cb.stdout, IssueNotDue)
  IN  IF cb.exit # 0 THEN [ret |-> FALSE, calls |-> c]
      ELSE IF success
        THEN [ret |-> TRUE, calls |-> c \o getCertificateExpiry(domain, q1).calls]
        ELSE [ret |-> FALSE, calls |-> c]

removeDomainConfig(domain, t) ==
  LET fn == "removeDomainConfig"
  IN  [ret   |-> t.reload,
       calls |-> << Ev(fn, "certbot delete", domain, t.certDelete),
                    Ev(fn, "unlink enabled", domain, t.unlinkEnabled),
                    Ev(fn, "unlink available", domain, t.unlinkConfig),
                    Ev(fn, "nginx -s reload", domain, t.reload) >>]

\* getDomainStatus: the live status {dns, nginx, ssl, sslExpiry}; access is
\* the outcome of fs.access on the enabled site
getDomainStatus(domain, rr, access, q) ==
  LET dns == verifyDNS(domain, rr)
      exp == getCertificateExpiry(domain, q)
  IN  [ret   |-> [dns |-> dns.ret, nginx |-> access, ssl |-> exp.ret # NoDate,
                  sslExpiry |-> exp.ret],
       calls |-> dns.calls \o <<Ev("getDomainStatus", "access", domain, access)>>
                   \o exp.calls]

\* faulty variant: the loop ends at the first certbot run that throws
RECURSIVE RenewLoopAbort(_, _, _)
RenewLoopAbort(domains, runs, acc) ==
  IF domains = << >> THEN acc
  ELSE
    LET domain == Head(domains)
        cb     == Head(runs)
        ev     == Ev("renewSSLCertificates", "certbot renew", domain, cb.exit = 0)
        acc1   == [acc EXCEPT !.calls = Append(@, ev)]
    IN  IF cb.exit # 0 THEN [acc1 EXCEPT !.failed = Append(@, domain)]
        ELSE IF Includes(cb.stdout, RenewNotDue)
          THEN RenewLoopAbort(Tail(domains), Tail(runs),
                              [acc1 EXCEPT !.skipped = Append(@, domain)])
        ELSE IF Includes(cb.stdout, Deployed)
          THEN RenewLoopAbort(Tail(domains), Tail(runs),
                              [acc1 EXCEPT !.successful = Append(@, domain)])
        ELSE RenewLoopAbort(Tail(domains), Tail(runs),
                            [acc1 EXCEPT !.failed = Append(@, domain)])

\* renewSSLCertificates: domains and the outcomes of their certbot runs, in
\* order; results accumulate in `acc`
RECURSIVE RenewLoop(_, _, _)
RenewLoop(domains, runs, acc) ==
  IF domains = << >> THEN acc
  ELSE
    LET domain == Head(domains)
        cb     == Head(runs)
        ev     == Ev("renewSSLCertificates", "certbot renew", domain, cb.exit = 0)
        acc1   == [acc EXCEPT !.calls = Append(@, ev)]
        acc2   ==
          IF cb.exit # 0 THEN [acc1 EXCEPT !.failed = Append(@, domain)]
          ELSE IF Includes(cb.stdout, RenewNotDue)
            THEN [acc1 EXCEPT !.skipped = Append(@, domain)]
          ELSE IF Includes(cb.stdout, Deployed)
            THEN [acc1 EXCEPT !.successful = Append(@, domain)]
          ELSE [acc1 EXCEPT !.failed = Append(@, domain)]
    IN  RenewLoop(Tail(domains), Tail(runs), acc2)

renewSSLCertificates(domains, runs) ==
  RenewLoop(domains, runs,
            [successful |-> << >>, failed |-> << >>, skipped |-> << >>, calls |-> << >>])

-----------------------------------------------------------------------------
(* models/Domain *)

\* paths of domainSchema; retryCount and errorMessage are paths of
\* metadata only
SchemaPaths ==
  {"domain", "siteSlug", "connected", "ssl", "dnsVerified", "nginxConfigured",
   "sslExpiry", "lastChecked", "createdAt", "metadata"}

\* faulty variant: every new document is connected
NewDomainConnected(domain, siteSlug, dnsVerified) ==
  [domain |-> domain, siteSlug |-> siteSlug,
   connected |-> TRUE, ssl |-> FALSE, dnsVerified |-> dnsVerified,
   nginxConfigured |-> FALSE, sslExpiry |-> NoDate,
   lastChecked |-> now, createdAt |-> now,
   metadata |-> [errorMessage |-> NoMessage, retryCount |-> RetryCountDefault]]

\* new Domain({domain, siteSlug, dnsVerified, connected: dnsVerified,
\* lastChecked: new Date()}) with the schema's defaults
NewDomain(domain, siteSlug, dnsVerified) ==
  [domain |-> domain, siteSlug |-> siteSlug,
   connected |-> dnsVerified, ssl |-> FALSE, dnsVerified |-> dnsVerified,
   nginxConfigured |-> FALSE, sslExpiry |-> NoDate,
   lastChecked |-> now, createdAt |-> now,
   metadata |-> [errorMessage |-> NoMessage, retryCount |-> RetryCountDefault]]

\* faulty variant: save() runs no validator
ValidationFailsNever(doc) == FALSE

\* document.validate() on save(): the validators of domain and siteSlug
ValidationFails(doc) == ~ValidDomain(doc.domain) \/ ~ValidSlug(doc.siteSlug)

\* the document as written by save() (updatedAt is not modelled)
Saved(doc) == doc

\* document.save() of a new document
Insert(s, doc) == s \cup {Saved(doc)}

\* document.save() of a document that was loaded as `old`
Save(s, old, doc) == (s \ {old}) \cup {Saved(doc)}

\* this.retryCount of a document: there is no such path, so no value
TopRetryCount(doc) ==
  IF "retryCount" \in SchemaPaths THEN {doc.retryCount} ELSE {}

\* a filter condition on the path retryCount. The path is not in the schema:
\* with strictQuery on, Mongoose removes the condition from the filter; with
\* strictQuery off, MongoDB evaluates it and no document has the field.
RetryCountLt(doc, n) ==
  IF "retryCount" \in SchemaPaths THEN doc.retryCount < n
  ELSE strictQuery
RetryCountGte(doc, n) ==
  IF "retryCount" \in SchemaPaths THEN doc.retryCount >= n
  ELSE strictQuery

\* Domain.findOne({ domain })
FindOne(s, domain) == {r \in s : r.domain = domain}

\* domainSchema.statics.findPendingDomains (before the sort)
findPendingDomains(s) ==
  {r \in s : r.connected = FALSE /\ RetryCountLt(r, RetryCap)}

\* domainSchema.statics.findExpiringSSL
\* faulty variant: every record with a certificate, whatever its expiry
findExpiringSSLAll(s, daysBeforeExpiry) ==
  {r \in s : r.ssl = TRUE /\ r.sslExpiry # NoDate}

findExpiringSSL(s, daysBeforeExpiry) ==
  {r \in s : r.ssl = TRUE /\ r.sslExpiry # NoDate
             /\ r.sslExpiry <= now + daysBeforeExpiry}

\* the filter of cleanupOldDomains
findOldFailedDomains(s) ==
  LET cutoffDate == now - CleanupDays
  IN  {r \in s : r.connected = FALSE /\ RetryCountGte(r, RetryCap)
                 /\ r.createdAt < cutoffDate}

\* domainSchema.virtual('status')
Status(doc) ==
  IF doc.connected /\ doc.ssl THEN "active"
  ELSE IF doc.connected /\ ~doc.ssl THEN "connected-no-ssl"
  ELSE IF doc.dnsVerified /\ ~doc.connected THEN "dns-verified"
  ELSE IF \E c \in TopRetryCount(doc) : c >= RetryCap THEN "failed"
  ELSE "pending"

\* the documents of a result set in the order the loop visits them: by
\* lastChecked for .sort({ lastChecked: 1 }), else (and among equals) in
\* insertion order, which is createdAt order
Before(r, q, byLastChecked) ==
  \/ byLastChecked /\ r.lastChecked < q.lastChecked
  \/ (byLastChecked => r.lastChecked = q.lastChecked) /\ r.createdAt <= q.createdAt

RECURSIVE InOrder(_, _)
InOrder(docs, byLastChecked) ==
  IF docs = {} THEN << >>
  ELSE
    LET firsts == {r \in docs : \A q \in docs : Before(r, q, byLastChecked)}
        first  == CHOOSE r \in firsts : TRUE
    IN  <<first>> \o InOrder(docs \ {first}, byLastChecked)

-----------------------------------------------------------------------------
(* Operations. Each gives the set of its possible results, one for every   *)
(* outcome of the external calls it makes: the store it leaves, the calls  *)
(* it made, its reply and the domains verifyDNS returned true for.         *)

NoRenewal == [successful |-> << >>, failed |-> << >>, skipped |-> << >>]

\* the summary of a reply that has none
NoSummary == [total |-> 0, connected |-> 0, pending |-> 0, ssl |-> 0, expiringSSL |-> 0]

\* a reply's process outcome and resolver answer when it records none
NoRun == [exit |-> 0, stdout |-> {}]
NoAnswer == [err |-> FALSE, addresses |-> {}]

\* what an operation returns, with what it was given: input is the domain (or
\* the list of domains) as received, slug the siteSlug as received; for a
\* call of one DomainService method, run is the outcome of its certbot
\* process and answer the outcome of its lookup
Reply(op, domain, status, success, docs, input, renewal) ==
  [op |-> op, domain |-> domain, status |-> status, success |-> success,
   doc |-> docs, input |-> input, renewal |-> renewal,
   slug |-> "", summary |-> NoSummary, run |-> NoRun, answer |-> NoAnswer,
   names |-> {}]

Result(s, c, reply, dnsTrue) ==
  [store |-> s, calls |-> c, res |-> reply, dnsTrue |-> dnsTrue]

\* faulty variant: the certificate is requested whatever createNginxConfig
\* returned
SetupChainOnUngated(doc, nginxRun, cb, q1, q) ==
  LET nginx == createNginxConfig(doc.domain, doc.siteSlug, nginxRun)
      ssl   == issueSSLCertificate(doc.domain, cb, q1)
      exp   == getCertificateExpiry(doc.domain, q)
      d1    == IF nginx.ret THEN [doc EXCEPT !.nginxConfigured = TRUE] ELSE doc
      d2    == [d1 EXCEPT !.ssl = TRUE, !.connected = TRUE]
      d3    == IF exp.ret # NoDate THEN [d2 EXCEPT !.sslExpiry = exp.ret] ELSE d2
  IN  IF ~ssl.ret THEN [doc |-> d1, calls |-> nginx.calls \o ssl.calls]
      ELSE [doc |-> d3, calls |-> nginx.calls \o ssl.calls \o exp.calls]

\* faulty variant: the expiry date is not stored
SetupChainOnNoExpiry(doc, nginxRun, cb, q1, q) ==
  LET nginx == createNginxConfig(doc.domain, doc.siteSlug, nginxRun)
      ssl   == issueSSLCertificate(doc.domain, cb, q1)
      exp   == getCertificateExpiry(doc.domain, q)
      d1    == [doc EXCEPT !.nginxConfigured = TRUE]
      d2    == [d1 EXCEPT !.ssl = TRUE, !.connected = TRUE]
  IN  IF ~nginx.ret THEN [doc |-> doc, calls |-> nginx.calls]
      ELSE IF ~ssl.ret THEN [doc |-> d1, calls |-> nginx.calls \o ssl.calls]
      ELSE [doc |-> d2, calls |-> nginx.calls \o ssl.calls \o exp.calls]

\* the chain shared by the add route, the verify route and the pending check:
\* createNginxConfig, then issueSSLCertificate, then getCertificateExpiry.
\* None of the three throws, so the catch block is never entered.
SetupChainOn(doc, nginxRun, cb, q1, q) ==
  LET nginx == createNginxConfig(doc.domain, doc.siteSlug, nginxRun)
      ssl   == issueSSLCertificate(doc.domain, cb, q1)
      exp   == getCertificateExpiry(doc.domain, q)
      d1    == [doc EXCEPT !.nginxConfigured = TRUE]
      d2    == [d1 EXCEPT !.ssl = TRUE, !.connected = TRUE]
      d3    == IF exp.ret # NoDate THEN [d2 EXCEPT !.sslExpiry = exp.ret] ELSE d2
  IN  IF ~nginx.ret THEN [doc |-> doc, calls |-> nginx.calls]
      ELSE IF ~ssl.ret THEN [doc |-> d1, calls |-> nginx.calls \o ssl.calls]
      ELSE [doc |-> d3, calls |-> nginx.calls \o ssl.calls \o exp.calls]

SetupChain(doc) ==
  {SetupChainOn(doc, nginxRun, cb, q1, q) :
     nginxRun \in NginxRuns, cb \in CertbotRuns,
     \* issueSSLCertificate only logs what its own expiry query returns
     q1 \in {ExpiryNone}, q \in ExpiryRuns}

\* faulty variant: the lookup uses the domain as received
addDomainExistingRaw(domain, normalizedDomain) == FindOne(store, domain)

\* the existence check of the add route
addDomainExisting(domain, normalizedDomain) == FindOne(store, normalizedDomain)

\* router.post('/add-domain')
addDomainRoute(domain, siteSlug) ==
  LET op == "addDomain"
      normalizedDomain == Normalize(domain)
      existingDomain == addDomainExisting(domain, normalizedDomain)
      Answer(r) == [r EXCEPT !.res.slug = siteSlug]
      results ==
      IF FalsyDomain(domain) \/ siteSlug = ""
        THEN {Result(store, << >>, Reply(op, domain, 400, FALSE, {}, <<domain>>, NoRenewal), {})}
      ELSE IF existingDomain # {}
        THEN {Result(store, << >>,
                     Reply(op, normalizedDomain, 409, FALSE, existingDomain, <<domain>>, NoRenewal), {})}
      ELSE UNION {
        LET dns == verifyDNS(normalizedDomain, rr)
            dnsTrue == IF dns.ret THEN {normalizedDomain} ELSE {}
            domainRecord == NewDomain(normalizedDomain, siteSlug, dns.ret)
        IN  IF ValidationFails(domainRecord)
              \* the first save() fails validation: 500
              THEN {Result(store, dns.calls,
                           Reply(op, normalizedDomain, 500, FALSE, {}, <<domain>>, NoRenewal), {})}
            ELSE IF dns.ret
              THEN {Result(Save(Insert(store, domainRecord), Saved(domainRecord), c.doc),
                           dns.calls \o c.calls,
                           Reply(op, normalizedDomain, 200, TRUE, {Saved(c.doc)}, <<domain>>, NoRenewal),
                           dnsTrue) : c \in SetupChain(Saved(domainRecord))}
            ELSE {Result(Insert(store, domainRecord), dns.calls,
                         Reply(op, normalizedDomain, 200, TRUE, {Saved(domainRecord)}, <<domain>>, NoRenewal),
                         dnsTrue)}
        : rr \in ResolveRunsOf(StripWww(normalizedDomain)) }
  IN  {Answer(r) : r \in results}

\* router.post('/domains/:domain/verify')
verifyDomainRoute(domain) ==
  LET op == "verifyDomain"
      normalizedDomain == Normalize(domain)
      found == FindOne(store, normalizedDomain)
  IN  IF found = {}
        THEN {Result(store, << >>, Reply(op, normalizedDomain, 404, FALSE, {}, << >>, NoRenewal), {})}
      ELSE UNION {
        LET domainRecord == CHOOSE r \in found : TRUE
            dns == verifyDNS(normalizedDomain, rr)
            dnsTrue == IF dns.ret THEN {normalizedDomain} ELSE {}
            d1 == [domainRecord EXCEPT !.dnsVerified = dns.ret, !.lastChecked = now]
        IN  IF dns.ret /\ ~d1.connected
              THEN {Result(Save(store, domainRecord, c.doc), dns.calls \o c.calls,
                           Reply(op, normalizedDomain, 200, TRUE, {Saved(c.doc)}, << >>, NoRenewal),
                           dnsTrue) : c \in SetupChain(d1)}
            ELSE {Result(Save(store, domainRecord, d1), dns.calls,
                         Reply(op, normalizedDomain, 200, TRUE, {Saved(d1)}, << >>, NoRenewal),
                         dnsTrue)}
        : rr \in ResolveRunsOf(StripWww(normalizedDomain)) }

\* faulty variant: the configuration is torn down before the record is looked up
removeDomainRouteEager(domain, t) ==
  LET op == "removeDomain"
      normalizedDomain == Normalize(domain)
      found == FindOne(store, normalizedDomain)
      teardown == removeDomainConfig(normalizedDomain, t)
      deleted == {CHOOSE r \in found : TRUE}
  IN  IF found = {}
        THEN Result(store, teardown.calls,
                    Reply(op, normalizedDomain, 404, FALSE, {}, << >>, NoRenewal), {})
      ELSE Result(store \ deleted, teardown.calls,
                  Reply(op, normalizedDomain, 200, TRUE, {}, << >>, NoRenewal), {})

\* faulty variant: the record is deleted only when the teardown succeeded
removeDomainRouteIfTornDown(domain, t) ==
  LET op == "removeDomain"
      normalizedDomain == Normalize(domain)
      found == FindOne(store, normalizedDomain)
      teardown == removeDomainConfig(normalizedDomain, t)
      deleted == {CHOOSE r \in found : TRUE}
  IN  IF found = {}
        THEN Result(store, << >>, Reply(op, normalizedDomain, 404, FALSE, {}, << >>, NoRenewal), {})
      ELSE IF teardown.ret
        THEN Result(store \ deleted, teardown.calls,
                    Reply(op, normalizedDomain, 200, TRUE, {}, << >>, NoRenewal), {})
      ELSE Result(store, teardown.calls,
                  Reply(op, normalizedDomain, 500, FALSE, {}, << >>, NoRenewal), {})

\* router.delete('/domains/:domain')
removeDomainRoute(domain, t) ==
  LET op == "removeDomain"
      normalizedDomain == Normalize(domain)
      found == FindOne(store, normalizedDomain)
      teardown == removeDomainConfig(normalizedDomain, t)
      \* Domain.deleteOne({ domain }): the first match
      deleted == {CHOOSE r \in found : TRUE}
  IN  IF found = {}
        THEN Result(store, << >>, Reply(op, normalizedDomain, 404, FALSE, {}, << >>, NoRenewal), {})
      ELSE Result(store \ deleted, teardown.calls,
                  Reply(op, normalizedDomain, 200, TRUE, {}, << >>, NoRenewal), {})

\* router.post('/domains/:domain/renew-ssl')
\* faulty variant: the expiry is refreshed whatever the outcome of the renewal
renewSslRouteAnyOutcome(domain, cb, q) ==
  LET op == "renewSSL"
      normalizedDomain == Normalize(domain)
      found == FindOne(store, normalizedDomain)
      domainRecord == CHOOSE r \in found : TRUE
      input == <<normalizedDomain>>
      all == renewSSLCertificates(input, <<cb>>)
      renewalResults == [successful |-> all.successful, failed |-> all.failed,
                         skipped |-> all.skipped]
      exp == getCertificateExpiry(normalizedDomain, q)
      d1 == [domainRecord EXCEPT !.sslExpiry = exp.ret]
  IN  IF found = {}
        THEN Result(store, << >>, Reply(op, normalizedDomain, 404, FALSE, {}, << >>, NoRenewal), {})
      ELSE Result(IF exp.ret # NoDate THEN Save(store, domainRecord, d1) ELSE store,
                  all.calls \o exp.calls,
                  Reply(op, normalizedDomain, 200,
                        \E i \in DOMAIN all.successful : all.successful[i] = normalizedDomain,
                        {}, input, renewalResults), {})

renewSslRoute(domain, cb, q) ==
  LET op == "renewSSL"
      normalizedDomain == Normalize(domain)
      found == FindOne(store, normalizedDomain)
      domainRecord == CHOOSE r \in found : TRUE
      input == <<normalizedDomain>>
      all == renewSSLCertificates(input, <<cb>>)
      renewalResults == [successful |-> all.successful, failed |-> all.failed,
                         skipped |-> all.skipped]
      exp == getCertificateExpiry(normalizedDomain, q)
      d1 == [domainRecord EXCEPT !.sslExpiry = exp.ret]
  IN  IF found = {}
        THEN Result(store, << >>, Reply(op, normalizedDomain, 404, FALSE, {}, << >>, NoRenewal), {})
      ELSE IF \E i \in DOMAIN all.successful : all.successful[i] = normalizedDomain
        THEN Result(IF exp.ret # NoDate THEN Save(store, domainRecord, d1) ELSE store,
                    all.calls \o exp.calls,
                    Reply(op, normalizedDomain, 200, TRUE, {}, input, renewalResults), {})
      ELSE Result(store, all.calls,
                  Reply(op, normalizedDomain, 200, FALSE, {}, input, renewalResults), {})

\* faulty variant: the record is looked up under the domain as received
getDomainRouteRaw(domain, rr, access, q) ==
  LET op == "getDomain"
      found == FindOne(store, domain)
      status == getDomainStatus(domain, rr, access, q)
  IN  IF found = {}
        THEN Result(store, << >>, Reply(op, domain, 404, FALSE, {}, <<domain>>, NoRenewal), {})
      ELSE Result(store, status.calls,
                  Reply(op, domain, 200, TRUE, found, <<domain>>, NoRenewal),
                  IF status.ret.dns THEN {domain} ELSE {})

\* router.get('/domains/:domain'): the reply holds the record; the live
\* status it also holds is what the calls returned
getDomainRoute(domain, rr, access, q) ==
  LET op == "getDomain"
      normalizedDomain == Normalize(domain)
      found == FindOne(store, normalizedDomain)
      status == getDomainStatus(normalizedDomain, rr, access, q)
  IN  IF found = {}
        THEN Result(store, << >>,
                    Reply(op, normalizedDomain, 404, FALSE, {}, <<domain>>, NoRenewal), {})
      ELSE Result(store, status.calls,
                  Reply(op, normalizedDomain, 200, TRUE, found, <<domain>>, NoRenewal),
                  IF status.ret.dns THEN {normalizedDomain} ELSE {})

\* faulty variant: pending counts the records whose DNS is not verified
statusSummaryRoutePendingByDns ==
  LET expiringSSL == findExpiringSSL(store, ExpiryWindowDays)
      summary == [total       |-> Cardinality(store),
                  connected   |-> Cardinality({r \in store : r.connected = TRUE}),
                  pending     |-> Cardinality({r \in store : r.dnsVerified = FALSE}),
                  ssl         |-> Cardinality({r \in store : r.ssl = TRUE}),
                  expiringSSL |-> Cardinality(expiringSSL)]
  IN  Result(store, << >>,
             [Reply("statusSummary", << >>, 200, TRUE, expiringSSL, << >>, NoRenewal)
                EXCEPT !.summary = summary], {})

\* router.get('/domains/status/summary'): doc holds sslExpiringSoon
statusSummaryRoute ==
  LET expiringSSL == findExpiringSSL(store, ExpiryWindowDays)
      summary == [total       |-> Cardinality(store),
                  connected   |-> Cardinality({r \in store : r.connected = TRUE}),
                  pending     |-> Cardinality({r \in store : r.connected = FALSE}),
                  ssl         |-> Cardinality({r \in store : r.ssl = TRUE}),
                  expiringSSL |-> Cardinality(expiringSSL)]
  IN  Result(store, << >>,
             [Reply("statusSummary", << >>, 200, TRUE, expiringSSL, << >>, NoRenewal)
                EXCEPT !.summary = summary], {})

-----------------------------------------------------------------------------
(* CronService jobs *)

JobReply(op) == Reply(op, << >>, 0, TRUE, {}, << >>, NoRenewal)

\* faulty variant: the retry count starts again when the domain is checked
checkPendingOneReset(domainRecord) ==
  UNION {
    LET dns == verifyDNS(domainRecord.domain, rr)
        d1 == [domainRecord EXCEPT !.lastChecked = now, !.metadata.retryCount = 0]
    IN  IF dns.ret /\ ~d1.connected
          THEN {[old |-> domainRecord, doc |-> c.doc, calls |-> dns.calls \o c.calls,
                 dnsTrue |-> {domainRecord.domain}] : c \in SetupChain(d1)}
        ELSE {[old |-> domainRecord, doc |-> d1, calls |-> dns.calls,
               dnsTrue |-> IF dns.ret THEN {domainRecord.domain} ELSE {}]}
    : rr \in ResolveRunsOf(StripWww(domainRecord.domain)) }

\* the body of checkPendingDomains' loop for one document
checkPendingOne(domainRecord) ==
  UNION {
    LET dns == verifyDNS(domainRecord.domain, rr)
        d1 == [domainRecord EXCEPT !.lastChecked = now]
    IN  IF dns.ret /\ ~d1.connected
          THEN {[old |-> domainRecord, doc |-> c.doc, calls |-> dns.calls \o c.calls,
                 dnsTrue |-> {domainRecord.domain}] : c \in SetupChain(d1)}
        ELSE {[old |-> domainRecord, doc |-> d1, calls |-> dns.calls,
               dnsTrue |-> IF dns.ret THEN {domainRecord.domain} ELSE {}]}
    : rr \in ResolveRunsOf(StripWww(domainRecord.domain)) }

\* faulty variant: the pass ends at the first document whose DNS lookup fails
RECURSIVE checkPendingLoopAbort(_, _)
checkPendingLoopAbort(pendingDomains, acc) ==
  IF pendingDomains = << >> THEN {acc}
  ELSE UNION {
    IF one.dnsTrue = {}
      THEN {Result(acc.store, acc.calls \o one.calls, acc.res, acc.dnsTrue)}
    ELSE checkPendingLoopAbort(Tail(pendingDomains),
                     Result(Save(acc.store, one.old, one.doc), acc.calls \o one.calls, acc.res,
                            acc.dnsTrue \cup one.dnsTrue))
    : one \in checkPendingOne(Head(pendingDomains)) }

RECURSIVE checkPendingLoop(_, _)
checkPendingLoop(pendingDomains, acc) ==
  IF pendingDomains = << >> THEN {acc}
  ELSE UNION {
    checkPendingLoop(Tail(pendingDomains),
                     Result(Save(acc.store, one.old, one.doc), acc.calls \o one.calls, acc.res,
                            acc.dnsTrue \cup one.dnsTrue))
    : one \in checkPendingOne(Head(pendingDomains)) }

\* CronService.checkPendingDomains
checkPendingDomains ==
  checkPendingLoop(InOrder(findPendingDomains(store), TRUE),
                   Result(store, << >>, JobReply("checkPendingDomains"), {}))

\* CronService.checkSSLCertificates
RECURSIVE checkSSLLoop(_, _)
checkSSLLoop(expiringDomains, acc) ==
  IF expiringDomains = << >> THEN {acc}
  ELSE UNION {
    LET domainRecord == Head(expiringDomains)
        actualExpiry == getCertificateExpiry(domainRecord.domain, q)
        d1 == [domainRecord EXCEPT !.sslExpiry = actualExpiry.ret]
    IN  checkSSLLoop(Tail(expiringDomains),
                     Result(IF actualExpiry.ret # NoDate THEN Save(acc.store, domainRecord, d1)
                            ELSE acc.store,
                            acc.calls \o actualExpiry.calls, acc.res, {}))
    : q \in ExpiryRuns }

checkSSLCertificates ==
  checkSSLLoop(InOrder(findExpiringSSL(store, ExpiryWindowDays), FALSE),
               Result(store, << >>, JobReply("checkSSLCertificates"), {}))

\* CronService.renewSSLCertificates: the loop over renewalResults.successful
RECURSIVE renewUpdateLoop(_, _)
renewUpdateLoop(successful, acc) ==
  IF successful = << >> THEN {acc}
  ELSE UNION {
    LET domain == Head(successful)
        found == FindOne(acc.store, domain)
        expiryDate == getCertificateExpiry(domain, q)
    IN  IF found = {} THEN renewUpdateLoop(Tail(successful), acc)
        ELSE
          LET domainRecord == CHOOSE r \in found : TRUE
              d1 == [domainRecord EXCEPT !.sslExpiry = expiryDate.ret]
          IN  renewUpdateLoop(Tail(successful),
                Result(IF expiryDate.ret # NoDate THEN Save(acc.store, domainRecord, d1)
                       ELSE acc.store,
                       acc.calls \o expiryDate.calls, acc.res, {}))
    : q \in ExpiryRuns }

\* every sequence of certbot outcomes of length n
RECURSIVE RunSeqs(_)
RunSeqs(n) ==
  IF n = 0 THEN {<< >>}
  ELSE {Append(runs, cb) : runs \in RunSeqs(n - 1), cb \in CertbotRuns}

cronRenewSSLCertificates ==
  LET sslDomains == InOrder({r \in store : r.ssl = TRUE}, FALSE)
      domainsToRenew == [i \in DOMAIN sslDomains |-> sslDomains[i].domain]
  IN  UNION {
        LET all == renewSSLCertificates(domainsToRenew, runs)
            renewalResults == [successful |-> all.successful, failed |-> all.failed,
                               skipped |-> all.skipped]
        IN  renewUpdateLoop(all.successful,
              Result(store, all.calls,
                     Reply("renewSSLCertificates", << >>, 0, TRUE, {}, domainsToRenew,
                           renewalResults), {}))
        : runs \in RunSeqs(Len(sslDomains)) }

\* CronService.cleanupOldDomains
RECURSIVE cleanupLoop(_, _)
cleanupLoop(oldFailedDomains, acc) ==
  IF oldFailedDomains = << >> THEN {acc}
  ELSE UNION {
    LET domainRecord == Head(oldFailedDomains)
        teardown == removeDomainConfig(domainRecord.domain, t)
    IN  cleanupLoop(Tail(oldFailedDomains),
                    \* Domain.deleteOne({ _id: domainRecord._id })
                    Result(acc.store \ {domainRecord},
                           acc.calls \o teardown.calls, acc.res, {}))
    : t \in TeardownRuns }

cleanupOldDomains ==
  cleanupLoop(InOrder(findOldFailedDomains(store), FALSE),
              Result(store, << >>, JobReply("cleanupOldDomains"), {}))

-----------------------------------------------------------------------------
(* The state machine *)

\* no operation is running
Idle == JobReply("idle")

\* no operation is in progress step by step; nothing is known of the machine
NoProcs == << >>
NoServer == [sites |-> {}, certs |-> {}]

\* CronService after its constructor: not running, no task, no timer set;
\* starts counts the calls of start() that started the service, due the
\* initial checks the timer has started, ran those that have run
NoSched ==
  [isRunning |-> FALSE, tasks |-> {}, timers |-> 0, starts |-> 0,
   due |-> [pendingCheck |-> 0, sslCheck |-> 0],
   ran |-> [pendingCheck |-> 0, sslCheck |-> 0]]

Init ==
  /\ strictQuery \in BOOLEAN
  /\ store = {}
  /\ now = 0
  /\ dnsEverTrue = {}
  /\ calls = << >>
  /\ res = Idle
  /\ procs = NoProcs
  /\ server = NoServer
  /\ sched = NoSched

\* one operation runs from start to finish
Finish(r) ==
  /\ res = Idle
  /\ store' = r.store
  /\ calls' = r.calls
  /\ res' = r.res
  /\ dnsEverTrue' = dnsEverTrue \cup r.dnsTrue
  /\ UNCHANGED <<strictQuery, now, procs, server, sched>>

AddDomain ==
  \E domain \in RawDomains, siteSlug \in RawSlugs :
    \E r \in addDomainRoute(domain, siteSlug) : Finish(r)

VerifyDomain ==
  \E domain \in RouteDomains :
    \E r \in verifyDomainRoute(domain) : Finish(r)

GetDomain ==
  \E domain \in RawDomains \ {<< >>}, live \in LiveRuns :
    \E rr \in ResolveRunsOf(StripWww(Normalize(domain))) :
      Finish(getDomainRoute(domain, rr, live.access, live.q))

StatusSummary ==
  Finish(statusSummaryRoute)

RemoveDomain ==
  \E domain \in RouteDomains, t \in TeardownRuns :
    Finish(removeDomainRoute(domain, t))

RenewSSL ==
  \E domain \in RouteDomains, cb \in CertbotRuns, q \in ExpiryRuns :
    Finish(renewSslRoute(domain, cb, q))

CheckPendingDomains ==
  \E r \in checkPendingDomains : Finish(r)

CheckSSLCertificates ==
  \E r \in checkSSLCertificates : Finish(r)

RenewSSLCertificates ==
  \E r \in cronRenewSSLCertificates : Finish(r)

CleanupOldDomains ==
  \E r \in cleanupOldDomains : Finish(r)

\* the reply is delivered (a job's run ends)
Respond ==
  /\ res # Idle
  /\ res' = Idle
  /\ calls' = << >>
  /\ UNCHANGED <<strictQuery, store, now, dnsEverTrue, procs, server, sched>>

\* time passes
Tick ==
  /\ res = Idle
  /\ now + TickStep <= MaxDay
  /\ now' = now + TickStep
  /\ UNCHANGED <<strictQuery, store, dnsEverTrue, calls, res, procs, server, sched>>

Next ==
  \/ AddDomain
  \/ GetDomain
  \/ VerifyDomain
  \/ StatusSummary
  \/ RemoveDomain
  \/ RenewSSL
  \/ CheckPendingDomains
  \/ CheckSSLCertificates
  \/ RenewSSLCertificates
  \/ CleanupOldDomains
  \/ Respond
  \/ Tick

Spec == Init /\ [][Next]_vars

TypeOK ==
  /\ strictQuery \in BOOLEAN
  /\ now \in 0..MaxDay
  /\ \A r \in store : r.createdAt <= r.lastChecked /\ r.lastChecked <= now

-----------------------------------------------------------------------------
(* renewSSLCertificates applied to lists of domains *)

\* longest list
MaxBatch == 3

BatchDomains == { <<"shop", "com">>, <<"broken", "test">>, <<"blog", "shop", "com">> }

\* lists without repetition, as the callers build them (one route parameter;
\* the domains of the documents with ssl, and domain is a unique key)
BatchInputs ==
  {in \in UNION {[1..n -> BatchDomains] : n \in 0..MaxBatch} :
     \A i, j \in DOMAIN in : in[i] = in[j] => i = j}

RenewBatch ==
  /\ res = Idle
  /\ \E domains \in BatchInputs :
       \E runs \in RunSeqs(Len(domains)) :
         LET all == renewSSLCertificates(domains, runs)
         IN  /\ res' = Reply("renewBatch", << >>, 0, TRUE, {}, domains,
                             [successful |-> all.successful, failed |-> all.failed,
                              skipped |-> all.skipped])
             /\ calls' = all.calls
  /\ UNCHANGED <<strictQuery, store, now, dnsEverTrue, procs, server, sched>>

NextRenewBatch ==
  \/ RenewBatch
  \/ Respond

SpecRenewBatch == Init /\ [][NextRenewBatch]_vars

-----------------------------------------------------------------------------
(* The jobs and routes that work on existing records, started on a         *)
(* collection that already holds a record                                  *)

\* metadata.retryCount of the records found in the collection
StoredRetryCounts == {RetryCap - 1, RetryCap, RetryCap + 1}

\* records found in the collection: not connected (DNS verified or not), or
\* connected with a certificate that expires within the audit's window
StoredDocs ==
  {[domain |-> d, siteSlug |-> "site-1",
    connected |-> k, ssl |-> k, dnsVerified |-> v, nginxConfigured |-> k,
    sslExpiry |-> IF k THEN ExpiryWindowDays ELSE NoDate,
    lastChecked |-> 0, createdAt |-> 0,
    metadata |-> [errorMessage |-> NoMessage, retryCount |-> c]] :
     d \in {<<"shop", "com">>, <<"broken", "test">>},
     k \in BOOLEAN, v \in BOOLEAN, c \in StoredRetryCounts}

InitStored ==
  /\ strictQuery \in BOOLEAN
  /\ \E doc \in StoredDocs :
       /\ doc.connected => doc.dnsVerified
       /\ store = {doc}
  /\ now = 0
  /\ dnsEverTrue = {r.domain : r \in {q \in store : q.dnsVerified}}
  /\ calls = << >>
  /\ res = Idle
  /\ procs = NoProcs
  /\ server = NoServer
  /\ sched = NoSched

NextStored ==
  \/ GetDomain
  \/ VerifyDomain
  \/ StatusSummary
  \/ RenewSSL
  \/ CheckPendingDomains
  \/ CheckSSLCertificates
  \/ RenewSSLCertificates
  \/ Respond

SpecStored == InitStored /\ [][NextStored]_vars

-----------------------------------------------------------------------------
(* The methods of DomainService, each called on its own *)

ServiceDomains ==
  { <<"shop", "com">>, <<"www", "shop", "com">>, <<"blog", "shop", "com">>,
    <<"broken", "test">> }

\* outcomes of `sudo certbot --nginx ...`, with a run that prints the
\* success line and exits with status 1
IssueRuns == CertbotRuns \cup {[exit |-> 1, stdout |-> {Deployed}]}

VerifyDNS ==
  /\ res = Idle
  /\ \E domain \in ServiceDomains, rr \in ResolveRuns :
       LET r == verifyDNS(domain, rr)
       IN  /\ res' = [Reply("verifyDNS", domain, 0, r.ret, {}, <<domain>>, NoRenewal)
                        EXCEPT !.answer = rr]
           /\ calls' = r.calls
  /\ UNCHANGED <<strictQuery, store, now, dnsEverTrue, procs, server, sched>>

CreateNginxConfig ==
  /\ res = Idle
  /\ \E domain \in ServiceDomains, run \in NginxRuns :
       LET r == createNginxConfig(domain, "site-1", run)
       IN  /\ res' = [Reply("createNginxConfig", domain, 0, r.ret, {}, <<domain>>, NoRenewal)
                        EXCEPT !.slug = "site-1", !.names = ServerNames(domain)]
           /\ calls' = r.calls
  /\ UNCHANGED <<strictQuery, store, now, dnsEverTrue, procs, server, sched>>

IssueSSLCertificate ==
  /\ res = Idle
  /\ \E domain \in ServiceDomains, cb \in IssueRuns, q1 \in ExpiryRuns :
       LET r == issueSSLCertificate(domain, cb, q1)
       IN  /\ res' = [Reply("issueSSLCertificate", domain, 0, r.ret, {}, <<domain>>, NoRenewal)
                        EXCEPT !.run = cb, !.names = CertNames(domain)]
           /\ calls' = r.calls
  /\ UNCHANGED <<strictQuery, store, now, dnsEverTrue, procs, server, sched>>

NextService ==
  \/ VerifyDNS
  \/ CreateNginxConfig
  \/ IssueSSLCertificate
  \/ Respond

SpecService == Init /\ [][NextService]_vars

-----------------------------------------------------------------------------
(* Requests that name a domain with more than one leading "www" label. *)

WwwInputs == { <<"www", "www", "shop", "com">>, <<"WWW", "shop", "com">> }

AddWww ==
  \E domain \in WwwInputs :
    \E r \in addDomainRoute(domain, "site-1") : Finish(r)

GetWww ==
  \E domain \in WwwInputs, live \in LiveRuns :
    \E rr \in ResolveRunsOf(StripWww(Normalize(domain))) :
      Finish(getDomainRoute(domain, rr, live.access, live.q))

NextWww ==
  \/ AddWww
  \/ GetWww
  \/ Respond

SpecWww == Init /\ [][NextWww]_vars

-----------------------------------------------------------------------------
(* Two domains whose DNS may resolve to the server. *)

D1 == <<"shop", "com">>
D2 == <<"blog", "shop", "com">>

-----------------------------------------------------------------------------
(* createNginxConfig and removeDomainConfig over the files of the machine.
   sites are the files of sites-available, links the links of sites-enabled,
   invalid the files nginx rejects, live the sites of the configuration nginx
   has loaded.  nginx -t tests the whole configuration, that is every linked
   file; fs.symlink fails when the link exists. *)

TestFailed == [exit |-> 1, stderr |-> {"[emerg] unexpected end of file", "test failed"}]

NoFiles == [sites |-> {}, links |-> {}, invalid |-> {}, live |-> {}, certs |-> {}]

\* faulty variant: the existing link is not removed before fs.symlink
installNginxConfigNoUnlink(srv, domain, siteSlug, valid, reloadOk) ==
  LET invalid == IF valid THEN srv.invalid \ {domain} ELSE srv.invalid \cup {domain}
      linked  == domain \notin srv.links
      links   == srv.links \cup {domain}
      testOk  == links \cap invalid = {}
      run     == [write |-> TRUE, symlink |-> linked,
                  test |-> IF ~linked \/ testOk THEN TestOk ELSE TestFailed,
                  reload |-> IF linked /\ testOk THEN reloadOk ELSE TRUE]
      r       == createNginxConfig(domain, siteSlug, run)
  IN  [ret |-> r.ret, calls |-> r.calls,
       server |-> [srv EXCEPT !.sites = @ \cup {domain}, !.invalid = invalid,
                              !.links = links,
                              !.live = IF r.ret THEN links ELSE @]]

\* createNginxConfig: fs.writeFile, fs.unlink, fs.symlink, nginx -t, nginx -s reload
installNginxConfig(srv, domain, siteSlug, valid, reloadOk) ==
  LET invalid == IF valid THEN srv.invalid \ {domain} ELSE srv.invalid \cup {domain}
      unlinked == srv.links \ {domain}
      linked  == domain \notin unlinked
      links   == unlinked \cup {domain}
      testOk  == links \cap invalid = {}
      run     == [write |-> TRUE, symlink |-> linked,
                  test |-> IF ~linked \/ testOk THEN TestOk ELSE TestFailed,
                  reload |-> IF linked /\ testOk THEN reloadOk ELSE TRUE]
      r       == createNginxConfig(domain, siteSlug, run)
  IN  [ret |-> r.ret, calls |-> r.calls,
       server |-> [srv EXCEPT !.sites = @ \cup {domain}, !.invalid = invalid,
                              !.links = links,
                              !.live = IF r.ret THEN links ELSE @]]

\* removeDomainConfig: fs.unlink of the link and of the file, nginx -s reload
\* (nginx keeps the configuration it has loaded when the new one is invalid)
uninstallNginxConfig(srv, domain, reloadOk) ==
  LET links == srv.links \ {domain}
      t == [certDelete |-> TRUE, unlinkEnabled |-> domain \in srv.links,
            unlinkConfig |-> domain \in srv.sites, reload |-> reloadOk]
      r == removeDomainConfig(domain, t)
  IN  [ret |-> r.ret, calls |-> r.calls,
       server |-> [srv EXCEPT !.sites = @ \ {domain}, !.links = links,
                              !.invalid = @ \ {domain},
                              !.live = IF reloadOk /\ links \cap srv.invalid = {}
                                         THEN links ELSE @]]

InitProxy ==
  /\ strictQuery \in BOOLEAN
  /\ store = {}
  /\ now = 0
  /\ dnsEverTrue = {}
  /\ calls = << >>
  /\ res = Idle
  /\ procs = NoProcs
  /\ server = NoFiles
  /\ sched = NoSched

InstallNginxConfig ==
  /\ res = Idle
  /\ \E domain \in {D1, D2}, valid \in BOOLEAN, reloadOk \in BOOLEAN :
       LET r == installNginxConfig(server, domain, "site-1", valid, reloadOk)
       IN  /\ res' = [Reply("createNginxConfig", domain, 0, r.ret, {}, <<domain>>, NoRenewal)
                        EXCEPT !.slug = "site-1",
                               !.run = [valid |-> valid, reload |-> reloadOk,
                                        existed |-> domain \in server.links]]
           /\ calls' = r.calls
           /\ server' = r.server
  /\ UNCHANGED <<strictQuery, store, now, dnsEverTrue, procs, sched>>

UninstallNginxConfig ==
  /\ res = Idle
  /\ \E domain \in {D1, D2}, reloadOk \in BOOLEAN :
       LET r == uninstallNginxConfig(server, domain, reloadOk)
       IN  /\ res' = Reply("removeDomainConfig", domain, 0, r.ret, {}, <<domain>>, NoRenewal)
           /\ calls' = r.calls
           /\ server' = r.server
  /\ UNCHANGED <<strictQuery, store, now, dnsEverTrue, procs, sched>>

NextProxy ==
  \/ InstallNginxConfig
  \/ UninstallNginxConfig
  \/ Respond

SpecProxy == InitProxy /\ [][NextProxy]_vars

-----------------------------------------------------------------------------
(* Operations in progress together.  Every handler is an async function: it
   runs alone up to its next await, and while it waits for a query, a DNS
   lookup, a file operation or a process the handlers of other requests and
   jobs run.  One step here is the completion of the call a handler awaits;
   procs[p].pc names that call.  A verify request for D1, a pending check and
   a delete request for D1 are in progress over a collection holding D1 and
   D2, both unconnected.  The external calls succeed or fail; the steps of
   removeDomainConfig succeed. *)

ChainProcs == {"verify", "pending"}
ProcIds == ChainProcs \cup {"remove"}

NoDoc == [domain |-> << >>]

Proc(pc, loaded, doc, todo) == [pc |-> pc, loaded |-> loaded, doc |-> doc, todo |-> todo]
Done == Proc("done", NoDoc, NoDoc, << >>)

\* the paths a document marks modified are those whose value differs from the
\* loaded one; save() writes them to the stored document with that _id and
\* writes nothing when the document is gone
SaveWhole(s, loaded, doc) ==
  {IF r.domain = doc.domain THEN doc ELSE r : r \in s}

SaveModified(s, loaded, doc) ==
  {IF r.domain = doc.domain
     THEN [f \in DOMAIN r |-> IF doc[f] # loaded[f] THEN doc[f] ELSE r[f]]
     ELSE r : r \in s}

InitConcurrent ==
  /\ strictQuery \in BOOLEAN
  /\ now = 0
  /\ store = {NewDomain(D1, "site-1", FALSE), NewDomain(D2, "site-1", FALSE)}
  /\ dnsEverTrue = {}
  /\ calls = << >>
  /\ res = Idle
  /\ procs = [p \in ProcIds |->
               Proc(IF p = "pending" THEN "find" ELSE "findOne", NoDoc, NoDoc, << >>)]
  /\ server = NoServer
  /\ sched = NoSched

Step(p, proc) ==
  /\ procs' = [procs EXCEPT ![p] = proc]
  /\ UNCHANGED <<strictQuery, now, dnsEverTrue, calls, res, sched>>

\* the chain goes on with its next call
Await(p, pc, doc) == Step(p, [procs[p] EXCEPT !.pc = pc, !.doc = doc])

\* the pending check takes up the next document of its list, or ends
NextRecord(todo) ==
  IF todo = << >> THEN Done
  ELSE Proc("verifyDNS", Head(todo), Head(todo), Tail(todo))

\* verify route: Domain.findOne
VerifyFindOne ==
  /\ procs["verify"].pc = "findOne"
  /\ LET found == FindOne(store, D1)
     IN  IF found = {} THEN Step("verify", Done)
         ELSE LET domainRecord == CHOOSE r \in found : TRUE
              IN  Step("verify", Proc("verifyDNS", domainRecord, domainRecord, << >>))
  /\ UNCHANGED <<store, server>>

\* pending check: Domain.findPendingDomains
PendingFind ==
  /\ procs["pending"].pc = "find"
  /\ Step("pending", NextRecord(InOrder(findPendingDomains(store), TRUE)))
  /\ UNCHANGED <<store, server>>

\* domainService.verifyDNS returns
ChainVerifyDNS(p) ==
  /\ procs[p].pc = "verifyDNS"
  /\ \E dnsVerified \in BOOLEAN :
       LET doc == procs[p].doc
           d1 == IF p = "verify"
                   THEN [doc EXCEPT !.dnsVerified = dnsVerified, !.lastChecked = now]
                 ELSE [doc EXCEPT !.lastChecked = now]
       IN  Await(p, IF dnsVerified /\ ~doc.connected THEN "writeFile" ELSE "save", d1)
  /\ UNCHANGED <<store, server>>

\* createNginxConfig: the configuration is written and linked
ChainWriteFile(p) ==
  /\ procs[p].pc = "writeFile"
  /\ \E ok \in BOOLEAN :
       /\ Await(p, IF ok THEN "testNginxConfig" ELSE "save", procs[p].doc)
       /\ server' = IF ok THEN [server EXCEPT !.sites = @ \cup {procs[p].doc.domain}]
                    ELSE server
  /\ UNCHANGED store

\* createNginxConfig: nginx -t returns
ChainTestNginxConfig(p) ==
  /\ procs[p].pc = "testNginxConfig"
  /\ \E ok \in BOOLEAN :
       Await(p, IF ok THEN "reloadNginx" ELSE "save", procs[p].doc)
  /\ UNCHANGED <<store, server>>

\* createNginxConfig: nginx -s reload returns
ChainReloadNginx(p) ==
  /\ procs[p].pc = "reloadNginx"
  /\ \E ok \in BOOLEAN :
       IF ok THEN Await(p, "issueSSLCertificate", [procs[p].doc EXCEPT !.nginxConfigured = TRUE])
       ELSE Await(p, "save", procs[p].doc)
  /\ UNCHANGED <<store, server>>

\* issueSSLCertificate returns
ChainIssueSSLCertificate(p) ==
  /\ procs[p].pc = "issueSSLCertificate"
  /\ \E ok \in BOOLEAN :
       IF ok
         THEN /\ Await(p, "getCertificateExpiry",
                       [procs[p].doc EXCEPT !.ssl = TRUE, !.connected = TRUE])
              /\ server' = [server EXCEPT !.certs = @ \cup {procs[p].doc.domain}]
       ELSE /\ Await(p, "save", procs[p].doc)
            /\ UNCHANGED server
  /\ UNCHANGED store

\* getCertificateExpiry returns
ChainGetCertificateExpiry(p) ==
  /\ procs[p].pc = "getCertificateExpiry"
  /\ \E expiryDate \in {NoDate, CertExpiryDay} :
       Await(p, "save", IF expiryDate # NoDate THEN [procs[p].doc EXCEPT !.sslExpiry = expiryDate]
                        ELSE procs[p].doc)
  /\ UNCHANGED <<store, server>>

\* domainRecord.save() returns
ChainSave(p) ==
  /\ procs[p].pc = "save"
  /\ store' = SaveModified(store, procs[p].loaded, procs[p].doc)
  /\ Step(p, NextRecord(procs[p].todo))
  /\ UNCHANGED server

\* delete route: Domain.findOne
RemoveFindOne ==
  /\ procs["remove"].pc = "findOne"
  /\ LET found == FindOne(store, D1)
     IN  IF found = {} THEN Step("remove", Done)
         ELSE LET domainRecord == CHOOSE r \in found : TRUE
              IN  Step("remove", Proc("certbotDelete", domainRecord, domainRecord, << >>))
  /\ UNCHANGED <<store, server>>

\* removeDomainConfig: certbot delete returns
RemoveCertbotDelete ==
  /\ procs["remove"].pc = "certbotDelete"
  /\ Await("remove", "unlink", procs["remove"].doc)
  /\ server' = [server EXCEPT !.certs = @ \ {D1}]
  /\ UNCHANGED store

\* removeDomainConfig: the link and the configuration file are removed
RemoveUnlink ==
  /\ procs["remove"].pc = "unlink"
  /\ Await("remove", "reloadNginx", procs["remove"].doc)
  /\ server' = [server EXCEPT !.sites = @ \ {D1}]
  /\ UNCHANGED store

\* removeDomainConfig: nginx -s reload returns
RemoveReloadNginx ==
  /\ procs["remove"].pc = "reloadNginx"
  /\ Await("remove", "deleteOne", procs["remove"].doc)
  /\ UNCHANGED <<store, server>>

\* delete route: Domain.deleteOne
RemoveDeleteOne ==
  /\ procs["remove"].pc = "deleteOne"
  /\ store' = {r \in store : r.domain # D1}
  /\ Step("remove", [procs["remove"] EXCEPT !.pc = "removed"])
  /\ UNCHANGED server

NextConcurrent ==
  \/ VerifyFindOne
  \/ PendingFind
  \/ \E p \in ChainProcs : ChainVerifyDNS(p)
  \/ \E p \in ChainProcs : ChainWriteFile(p)
  \/ \E p \in ChainProcs : ChainTestNginxConfig(p)
  \/ \E p \in ChainProcs : ChainReloadNginx(p)
  \/ \E p \in ChainProcs : ChainIssueSSLCertificate(p)
  \/ \E p \in ChainProcs : ChainGetCertificateExpiry(p)
  \/ \E p \in ChainProcs : ChainSave(p)
  \/ RemoveFindOne
  \/ RemoveCertbotDelete
  \/ RemoveUnlink
  \/ RemoveReloadNginx
  \/ RemoveDeleteOne

SpecConcurrent == InitConcurrent /\ [][NextConcurrent]_vars

\* execAsync is called without a timeout option: the promise of a process
\* that does not exit is never settled, and the operation stays at its await
ExecCalls == {"testNginxConfig", "reloadNginx", "issueSSLCertificate", "getCertificateExpiry"}

ExecNeverReturns(p) ==
  /\ procs[p].pc \in ExecCalls
  /\ Step(p, [procs[p] EXCEPT !.pc = "hung"])
  /\ UNCHANGED <<store, server>>

NextHang ==
  \/ NextConcurrent
  \/ \E p \in ChainProcs : ExecNeverReturns(p)

\* every call that returns is resumed
SpecHang == InitConcurrent /\ [][NextHang]_vars /\ WF_vars(NextConcurrent)

-----------------------------------------------------------------------------
(* Two add requests for the same domain in progress together, over an empty
   collection.  The schema declares domain unique: the insert of a second
   document with the same domain is refused by the index. *)

AddProcs == {"add1", "add2"}

\* faulty variant: no unique index
InsertNoIndex(s, doc) == [ok |-> TRUE, store |-> Insert(s, doc)]

\* the first save() of a new document
InsertUnique(s, doc) ==
  IF \E r \in s : r.domain = doc.domain THEN [ok |-> FALSE, store |-> s]
  ELSE [ok |-> TRUE, store |-> Insert(s, doc)]

InitAdds ==
  /\ strictQuery \in BOOLEAN
  /\ now = 0
  /\ store = {}
  /\ dnsEverTrue = {}
  /\ calls = << >>
  /\ res = Idle
  /\ procs = [p \in AddProcs |-> Proc("findOne", NoDoc, NoDoc, << >>)]
  /\ server = NoServer
  /\ sched = NoSched

\* add route: Domain.findOne; an existing record is answered with 409
AddFindOne(p) ==
  /\ procs[p].pc = "findOne"
  /\ LET existingDomain == FindOne(store, D1)
     IN  Step(p, Proc(IF existingDomain # {} THEN "replied409" ELSE "verifyDNS",
                      NoDoc, NoDoc, << >>))
  /\ UNCHANGED <<store, server>>

\* add route: verifyDNS returns and the document is made
AddVerifyDNS(p) ==
  /\ procs[p].pc = "verifyDNS"
  /\ \E dnsVerified \in BOOLEAN :
       LET domainRecord == NewDomain(D1, "site-1", dnsVerified)
       IN  Step(p, Proc("insert", domainRecord, domainRecord, << >>))
  /\ UNCHANGED <<store, server>>

\* add route: the first save() returns, or throws (answered with 500)
AddInsert(p) ==
  /\ procs[p].pc = "insert"
  /\ LET saved == InsertUnique(store, procs[p].doc)
     IN  /\ store' = saved.store
         /\ IF ~saved.ok THEN Step(p, Proc("replied500", NoDoc, NoDoc, << >>))
            ELSE IF procs[p].doc.dnsVerified THEN Await(p, "writeFile", procs[p].doc)
            ELSE Step(p, Done)
  /\ UNCHANGED server

NextAdds ==
  \/ \E p \in AddProcs : AddFindOne(p)
  \/ \E p \in AddProcs : AddVerifyDNS(p)
  \/ \E p \in AddProcs : AddInsert(p)
  \/ \E p \in AddProcs : ChainWriteFile(p)
  \/ \E p \in AddProcs : ChainTestNginxConfig(p)
  \/ \E p \in AddProcs : ChainReloadNginx(p)
  \/ \E p \in AddProcs : ChainIssueSSLCertificate(p)
  \/ \E p \in AddProcs : ChainGetCertificateExpiry(p)
  \/ \E p \in AddProcs : ChainSave(p)

SpecAdds == InitAdds /\ [][NextAdds]_vars

-----------------------------------------------------------------------------
(* CronService: start, stop, the timer of the initial checks, the scheduled
   runs and triggerTask, over a collection holding one unconnected record. *)

MaxStarts == 2

TaskNames == {"pendingCheck", "sslCheck", "sslRenewal", "cleanup"}

\* faulty variant: the timer starts the pending check only
InitialChecksPendingOnly == {"pendingCheck"}

\* the checks the timer of start() starts
InitialChecks == {"pendingCheck", "sslCheck"}

\* the job a task runs
JobBody(name) ==
  CASE name = "pendingCheck" -> checkPendingDomains
    [] name = "sslCheck"     -> checkSSLCertificates
    [] name = "sslRenewal"   -> cronRenewSSLCertificates
    [] name = "cleanup"      -> cleanupOldDomains

InitScheduler ==
  /\ strictQuery \in BOOLEAN
  /\ now = 0
  /\ store = {NewDomain(D1, "site-1", FALSE)}
  /\ dnsEverTrue = {}
  /\ calls = << >>
  /\ res = Idle
  /\ procs = NoProcs
  /\ server = NoServer
  /\ sched = NoSched

\* a job runs from start to finish
RunJob(name) ==
  /\ res = Idle
  /\ \E r \in JobBody(name) :
       /\ store' = r.store
       /\ calls' = r.calls
       /\ res' = r.res
       /\ dnsEverTrue' = dnsEverTrue \cup r.dnsTrue
  /\ UNCHANGED <<strictQuery, now, procs, server>>

\* CronService.start (a call while running returns at once)
Start ==
  /\ ~sched.isRunning
  /\ sched.starts < MaxStarts
  /\ sched' = [sched EXCEPT !.tasks = TaskNames, !.isRunning = TRUE,
                            !.timers = @ + 1, !.starts = @ + 1]
  /\ UNCHANGED <<strictQuery, store, now, dnsEverTrue, calls, res, procs, server>>

\* CronService.stop (a call while not running returns at once)
Stop ==
  /\ sched.isRunning
  /\ sched' = [sched EXCEPT !.tasks = {}, !.isRunning = FALSE]
  /\ UNCHANGED <<strictQuery, store, now, dnsEverTrue, calls, res, procs, server>>

\* the callback of start()'s setTimeout: both checks are started
TimerFires ==
  /\ sched.timers > 0
  /\ sched' = [sched EXCEPT !.timers = @ - 1,
                            !.due = [job \in DOMAIN @ |->
                                       IF job \in InitialChecks THEN @[job] + 1 ELSE @[job]]]
  /\ UNCHANGED <<strictQuery, store, now, dnsEverTrue, calls, res, procs, server>>

\* a check started by the timer runs
InitialCheck(job) ==
  /\ sched.due[job] > 0
  /\ RunJob(job)
  /\ sched' = [sched EXCEPT !.due[job] = @ - 1, !.ran[job] = @ + 1]

\* a task's cron expression comes due
ScheduledRun ==
  /\ \E name \in sched.tasks : RunJob(name)
  /\ UNCHANGED sched

\* CronService.triggerTask
TriggerTask ==
  /\ \E taskName \in TaskNames \cup {"unknown"} :
       IF ~sched.isRunning \/ taskName \notin TaskNames
         THEN /\ res = Idle
              /\ res' = Reply("triggerTask", << >>, 500, FALSE, {}, << >>, NoRenewal)
              /\ UNCHANGED <<strictQuery, store, now, dnsEverTrue, calls, procs, server>>
       ELSE RunJob(taskName)
  /\ UNCHANGED sched

NextScheduler ==
  \/ Start
  \/ Stop
  \/ TimerFires
  \/ \E job \in {"pendingCheck", "sslCheck"} : InitialCheck(job)
  \/ ScheduledRun
  \/ TriggerTask
  \/ Respond

\* the timer fires, and the event loop runs what it has started
SpecScheduler ==
  /\ InitScheduler
  /\ [][NextScheduler]_vars
  /\ WF_vars(TimerFires)
  /\ WF_vars(Respond)
  /\ \A job \in {"pendingCheck", "sslCheck"} : SF_vars(InitialCheck(job))

-----------------------------------------------------------------------------
(* Properties *)

Range(seq) == {seq[i] : i \in DOMAIN seq}

\* how often x occurs in seq
Occurrences(seq, x) == Cardinality({i \in DOMAIN seq : seq[i] = x})

\* the commands of a chain in which every step succeeded
FullChain ==
  <<"resolve4", "writeFile", "unlink", "symlink", "nginx -t", "nginx -s reload",
    "certbot --nginx", "certbot certificates", "certbot certificates">>

\* C1: every stored record with connected = true has dnsVerified,
\* nginxConfigured and ssl all true.
C1_ConnectedImpliesAllThree ==
  \A r \in store : r.connected => r.dnsVerified /\ r.nginxConfigured /\ r.ssl

C3_NoDnsNoProgress ==
  /\ \A r \in store :
       r.domain \notin dnsEverTrue => ~r.dnsVerified /\ ~r.connected
  /\ \A i \in DOMAIN calls :
       calls[i].fn \in {"createNginxConfig", "issueSSLCertificate"}
         => calls[i].domain \in dnsEverTrue

C3_Witness ==
  /\ res.op \in {"verifyDomain", "checkPendingDomains"}
  /\ \E r \in store :
       /\ r.domain \notin dnsEverTrue
       /\ \E i \in DOMAIN calls :
            calls[i].cmd = "resolve4" /\ calls[i].domain = r.domain /\ ~calls[i].ok

\* C4: a pending check raises by exactly 1 the retryCount of every pending
\* record whose DNS does not resolve, and leaves it pending and not connected.
C4_RetryCountIncrements ==
  [][ res'.op = "checkPendingDomains" =>
        \A r \in store :
          (r.domain \in Unresolving /\ ~r.connected /\ r.metadata.retryCount < RetryCap)
            => \E r2 \in store' :
                 /\ r2.domain = r.domain
                 /\ r2.metadata.retryCount = r.metadata.retryCount + 1
                 /\ Status(r2) = "pending"
                 /\ ~r2.connected ]_vars

\* C5: an add whose DNS check, Nginx configuration, certificate issuance and
\* expiry query all succeed returns and stores a record with dnsVerified,
\* nginxConfigured and ssl true, status 'active' and sslExpiry equal to the
\* date the expiry query returned.
C5_AddAllSucceed ==
  (/\ res.op = "addDomain"
   /\ [i \in DOMAIN calls |-> calls[i].cmd] = FullChain
   /\ \A i \in DOMAIN calls : calls[i].ok
   /\ calls[Len(calls)].date # NoDate)
  => /\ res.status = 200 /\ res.success
     /\ \E d \in res.doc :
          /\ res.doc = {d}
          /\ d \in store
          /\ d.domain = res.domain
          /\ d.dnsVerified /\ d.nginxConfigured /\ d.ssl
          /\ Status(d) = "active"
          /\ d.sslExpiry = calls[Len(calls)].date

C5_Witness ==
  /\ res.op = "addDomain"
  /\ [i \in DOMAIN calls |-> calls[i].cmd] = FullChain
  /\ \A i \in DOMAIN calls : calls[i].ok
  /\ calls[Len(calls)].date = CertExpiryDay
  /\ \E d \in store : d.domain = res.domain /\ d.sslExpiry = CertExpiryDay

\* C6: every record the cleanup job deletes had connected = false,
\* retryCount >= 10 and createdAt more than 7 days before the run.
C6_CleanupOnlyStale ==
  [][ res'.op = "cleanupOldDomains" =>
        \A r \in store \ store' :
          /\ ~r.connected
          /\ r.metadata.retryCount >= RetryCap
          /\ r.createdAt < now - CleanupDays ]_vars

\* C7: renewSSLCertificates runs certbot for every domain of its input, in
\* order, whatever the earlier runs did, and every domain of the input is in
\* exactly one of successful, skipped, failed, which hold nothing else.
C7_RenewPartition ==
  res.op = "renewBatch" =>
    LET buckets == res.renewal.successful \o res.renewal.skipped \o res.renewal.failed
        attempts == [i \in DOMAIN calls |-> calls[i].domain]
    IN  /\ attempts = res.input
        /\ \A i \in DOMAIN calls : calls[i].cmd = "certbot renew"
        /\ \A d \in Range(res.input) : Occurrences(buckets, d) = 1
        /\ Range(buckets) \subseteq Range(res.input)

C7_Witness ==
  /\ res.op = "renewBatch"
  /\ Len(res.input) = MaxBatch
  /\ ~calls[1].ok
  /\ res.renewal.failed # << >>
  /\ res.renewal.skipped # << >>
  /\ res.renewal.successful # << >>

\* C8: a removal of a domain that has no record is answered with not found
\* (404), leaves the store as it was and makes no external call.
C8_RemoveUnknown ==
  [][ (res'.op = "removeDomain" /\ FindOne(store, res'.domain) = {})
        => /\ res'.status = 404 /\ ~res'.success
           /\ store' = store
           /\ calls' = << >> ]_vars

C8_Witness ==
  /\ res.op = "removeDomain"
  /\ res.status = 404
  /\ calls = << >>
  /\ store # {}

\* C9: a removal of a domain that has a record, and the cleanup job for each
\* record it selected, leave no such record in the store, whatever the
\* teardown steps did.
C9_DeletedWhateverTeardown ==
  [][ /\ (res'.op = "removeDomain" /\ FindOne(store, res'.domain) # {})
           => FindOne(store', res'.domain) = {}
      /\ res'.op = "cleanupOldDomains"
           => \A r \in findOldFailedDomains(store) : FindOne(store', r.domain) = {} ]_vars

C9_Witness ==
  /\ res.op = "removeDomain"
  /\ res.status = 200
  /\ calls # << >>
  /\ \A i \in DOMAIN calls : ~calls[i].ok
  /\ FindOne(store, res.domain) = {}

\* C10: createNginxConfig reloads Nginx only directly after its configuration
\* test exited with status 0; after a failed test it issues no reload and
\* returns false, so nothing of the chain follows.
C10_ReloadOnlyAfterValidation ==
  \A i \in DOMAIN calls :
    /\ (calls[i].fn = "createNginxConfig" /\ calls[i].cmd = "nginx -s reload")
         => /\ i > 1
            /\ calls[i - 1].fn = "createNginxConfig"
            /\ calls[i - 1].cmd = "nginx -t"
            /\ calls[i - 1].domain = calls[i].domain
            /\ calls[i - 1].ok
    /\ (calls[i].cmd = "nginx -t" /\ ~calls[i].ok)
         => i = Len(calls) \/ calls[i + 1].fn = "verifyDNS"

C10_Witness ==
  /\ calls # << >>
  /\ calls[Len(calls)].cmd = "nginx -t"
  /\ ~calls[Len(calls)].ok

\* C11: every stored record with a non-null sslExpiry has ssl = true.
C11_ExpiryOnlyWithCertificate ==
  \A r \in store : r.sslExpiry # NoDate => r.ssl

GetReturnsNormalized(D) ==
  \A live \in LiveRuns, rr \in ResolveRuns :
    LET g == getDomainRoute(D, rr, live.access, live.q)
    IN  /\ g.res.status = 200
        /\ g.res.doc # {}
        /\ \A d \in g.res.doc : d.domain = Normalize(D)

\* C13 as stated: after an add of a domain D that is valid as received (with
\* a valid siteSlug), a get of D returns a record whose domain is
\* normalize(D).
C13_AddThenGetValidAsReceived ==
  (/\ res.op = "addDomain"
   /\ ValidDomain(res.input[1])
   /\ ValidSlug(res.slug))
  => GetReturnsNormalized(res.input[1])

\* C13: after an add of a domain D whose normalized form is valid (with a
\* valid siteSlug), a get of D returns a record whose domain is normalize(D);
\* and every record a get of D returns has the domain normalize(D).
C13_AddThenGet ==
  /\ (/\ res.op = "addDomain"
      /\ ValidDomain(Normalize(res.input[1]))
      /\ ValidSlug(res.slug))
     => GetReturnsNormalized(res.input[1])
  /\ (res.op = "getDomain" /\ res.status = 200)
     => /\ res.doc # {}
        /\ \A d \in res.doc : d.domain = Normalize(res.input[1])

C13_Witness ==
  /\ res.op = "getDomain"
  /\ res.status = 200
  /\ res.input = << <<"www", "shop", "com">> >>
  /\ \E d \in res.doc : d.domain = <<"shop", "com">>

\* C14: issueSSLCertificate returns true exactly when certbot exits with
\* status 0 and prints 'Successfully deployed certificate' or 'Certificate
\* not yet due for renewal'; for every other outcome it returns false.
C14_IssueTrueIffSuccessLine ==
  res.op = "issueSSLCertificate" =>
    /\ res.success \in BOOLEAN
    /\ res.success <=>
         /\ res.run.exit = 0
         /\ Deployed \in res.run.stdout \/ IssueNotDue \in res.run.stdout

C14_Witness ==
  /\ res.op = "issueSSLCertificate"
  /\ res.run = [exit |-> 0, stdout |-> {IssueNotDue}]
  /\ res.success
  /\ Len(calls) = 2

\* C15: verifyDNS looks up the domain with a leading 'www.' stripped and
\* returns true exactly when the lookup succeeds and the server's address is
\* among the addresses; a failed lookup gives false.
C15_VerifyTrueIffAddressListed ==
  res.op = "verifyDNS" =>
    /\ res.success \in BOOLEAN
    /\ res.success <=> (~res.answer.err /\ ServerIP \in res.answer.addresses)
    /\ Len(calls) = 1
    /\ calls[1].cmd = "resolve4"
    /\ calls[1].domain = StripWww(res.domain)

C15_Witness ==
  /\ res.op = "verifyDNS"
  /\ res.domain = <<"www", "shop", "com">>
  /\ calls[1].domain = <<"shop", "com">>
  /\ res.success

\* the request lacks a field, or its domain (normalized, as the validator
\* sees it) or its siteSlug does not pass the schema's validator
BadAddRequest(D, t) ==
  \/ FalsyDomain(D) \/ t = ""
  \/ ~ValidDomain(Normalize(D))
  \/ ~ValidSlug(t)

\* C16: an add with a missing or malformed domain or siteSlug is answered
\* with an error and leaves the store as it was.
C16_BadAddRejected ==
  [][ (res'.op = "addDomain" /\ BadAddRequest(res'.input[1], res'.slug))
        => /\ ~res'.success
           /\ res'.status \in {400, 409, 500}
           /\ store' = store ]_vars

C16_Witness ==
  /\ res.op = "addDomain"
  /\ res.status = 500
  /\ res.input = << <<"Shop", "COM">> >>
  /\ res.slug = "bad slug"
  /\ calls # << >>

\* C17: the status of a record is determined by dnsVerified,
\* nginxConfigured, ssl and metadata.retryCount; it is 'active' exactly when
\* the three flags are true, 'connected-no-ssl' when DNS and Nginx are done
\* without a certificate, 'dns-verified' when only DNS is done, and 'pending'
\* when none is (below the retry cap).
C17_StatusFromFlags ==
  /\ \A r \in store :
       /\ Status(r) = "active" <=> (r.dnsVerified /\ r.nginxConfigured /\ r.ssl)
       /\ (r.dnsVerified /\ r.nginxConfigured /\ ~r.ssl) => Status(r) = "connected-no-ssl"
       /\ (r.dnsVerified /\ ~r.nginxConfigured /\ ~r.ssl) => Status(r) = "dns-verified"
       /\ (~r.dnsVerified /\ ~r.nginxConfigured /\ ~r.ssl
             /\ r.metadata.retryCount < RetryCap) => Status(r) = "pending"
  /\ \A r1, r2 \in store :
       (/\ r1.dnsVerified = r2.dnsVerified
        /\ r1.nginxConfigured = r2.nginxConfigured
        /\ r1.ssl = r2.ssl
        /\ r1.metadata.retryCount = r2.metadata.retryCount)
       => Status(r1) = Status(r2)

C20_RetryCountNeverLowered ==
  [][ \A r \in store : \A r2 \in store' :
        r2.domain = r.domain => r2.metadata.retryCount >= r.metadata.retryCount ]_vars

C20_Witness ==
  /\ res.op = "checkPendingDomains"
  /\ \E r \in store :
       /\ r.connected /\ r.ssl
       /\ r.sslExpiry = CertExpiryDay
       /\ r.metadata.retryCount = RetryCap - 1

\* a record that lacks one of the three flags
NotFullyConnected(r) == ~(r.dnsVerified /\ r.nginxConfigured /\ r.ssl)

\* C21: every pending check runs the chain, starting with the DNS lookup, for
\* every record that lacks one of dnsVerified, nginxConfigured, ssl and has
\* metadata.retryCount below 10.
C21_IncompleteRecordsSelected ==
  [][ res'.op = "checkPendingDomains" =>
        \A r \in store :
          (NotFullyConnected(r) /\ r.metadata.retryCount < RetryCap)
            => \E i \in DOMAIN calls' :
                 calls'[i].cmd = "resolve4" /\ calls'[i].domain = r.domain ]_vars

\* C23: in the add route, the verify route and the pending check, every call
\* of createNginxConfig for a domain follows a DNS lookup for it that gave
\* true in the same operation, and every call of issueSSLCertificate follows
\* a createNginxConfig for it that returned true (its reload succeeded) in the
\* same operation.
C23_ChainOrderAndGating ==
  res.op \in {"addDomain", "verifyDomain", "checkPendingDomains"} =>
    \A i \in DOMAIN calls :
      /\ calls[i].fn = "createNginxConfig" =>
           \E j \in 1..(i - 1) :
             /\ calls[j].cmd = "resolve4"
             /\ calls[j].domain = calls[i].domain
             /\ calls[j].ok
      /\ calls[i].fn = "issueSSLCertificate" =>
           \E j \in 1..(i - 1) :
             /\ calls[j].fn = "createNginxConfig"
             /\ calls[j].cmd = "nginx -s reload"
             /\ calls[j].domain = calls[i].domain
             /\ calls[j].ok
             /\ \A k \in (j + 1)..(i - 1) : calls[k].fn # "createNginxConfig"

C23_Witness ==
  /\ res.op = "verifyDomain"
  /\ \E i \in DOMAIN calls :
       calls[i].fn = "createNginxConfig" /\ calls[i].cmd = "nginx -s reload" /\ ~calls[i].ok
  /\ \A i \in DOMAIN calls : calls[i].fn # "issueSSLCertificate"

\* C25: a verify that finds a record with dnsVerified = false and whose DNS
\* lookup gives true goes on to createNginxConfig; a verify whose DNS lookup
\* gives false calls neither createNginxConfig nor issueSSLCertificate.
C25_VerifyContinuesOnFlip ==
  [][ res'.op = "verifyDomain" =>
        \A r \in FindOne(store, res'.domain) :
          /\ (~r.dnsVerified /\ calls'[1].ok)
               => \E i \in DOMAIN calls' : calls'[i].fn = "createNginxConfig"
          /\ ~calls'[1].ok
               => \A i \in DOMAIN calls' :
                    calls'[i].fn \notin {"createNginxConfig", "issueSSLCertificate"} ]_vars

\* C26: after a pending check, every record for which a step of the pass
\* failed (DNS lookup negative, createNginxConfig or issueSSLCertificate
\* returning false) has a metadata.errorMessage.
C26_FailureSetsErrorMessage ==
  [][ res'.op = "checkPendingDomains" =>
        \A r \in store' :
          (\E i \in DOMAIN calls' :
             /\ calls'[i].domain = r.domain
             /\ ~calls'[i].ok
             /\ calls'[i].cmd \in {"resolve4", "writeFile", "symlink", "nginx -t",
                                   "nginx -s reload", "certbot --nginx"})
          => r.metadata.errorMessage # NoMessage ]_vars

NextJobs ==
  \/ AddDomain
  \/ CheckPendingDomains
  \/ CleanupOldDomains
  \/ Respond
  \/ Tick

SpecJobs ==
  /\ Init
  /\ [][NextJobs]_vars
  /\ SF_vars(CheckPendingDomains)
  /\ SF_vars(CleanupOldDomains)
  /\ SF_vars(Tick)
  /\ WF_vars(Respond)

HasRecord(d) == \E r \in store : r.domain = d

\* a record of d that turns 7 days old within the days of the model
HasAgeingRecord(d) == \E r \in store : r.domain = d /\ r.createdAt + CleanupDays < MaxDay

\* C22: a record whose domain never resolves reaches metadata.retryCount 10
\* and is in the end deleted, the pending check and the cleanup running again
\* and again.
C22_FailingRecordDestroyed ==
  \A d \in Unresolving :
    /\ HasAgeingRecord(d)
         ~> (\E r \in store : r.domain = d /\ r.metadata.retryCount >= RetryCap)
    /\ HasAgeingRecord(d) ~> ~HasRecord(d)

\* the stored record of the document an operation in progress holds
StoredOf(doc) == {r \in store : r.domain = doc.domain}

InValidateReload(p) == procs[p].pc \in {"testNginxConfig", "reloadNginx"}

\* C28: createNginxConfig calls for different domains do not overlap between
\* the start of the validation and the end of the reload.
C28_ValidateReloadSerialized ==
  \A p, q \in ChainProcs :
    (p # q /\ InValidateReload(p) /\ InValidateReload(q))
      => procs[p].doc.domain = procs[q].doc.domain

\* C29: at no time are two certificate issuances for the same domain in
\* progress.
C29_OneIssuancePerDomain ==
  \A p, q \in ChainProcs :
    (/\ p # q
     /\ procs[p].pc = "issueSSLCertificate"
     /\ procs[q].pc = "issueSSLCertificate")
      => procs[p].doc.domain # procs[q].doc.domain

\* C30: when the delete request has deleted D1's record and every operation
\* has finished, there is no record of D1, no site configuration and no
\* certificate for D1.
C30_RemovalTerminal ==
  (/\ procs["remove"].pc = "removed"
   /\ \A p \in ChainProcs : procs[p].pc = "done")
    => /\ FindOne(store, D1) = {}
       /\ D1 \notin server.sites
       /\ D1 \notin server.certs

\* the dates the certificate client reported for a domain in the last operation
ReportedExpiry(domain) ==
  {calls[i].date : i \in {j \in DOMAIN calls :
                            /\ calls[j].fn = "getCertificateExpiry"
                            /\ calls[j].domain = domain
                            /\ calls[j].date # NoDate}}

C34_RenewalUpdatesOnlyRenewed ==
  [][ res'.op \in {"renewSSL", "renewSSLCertificates"} =>
        /\ Cardinality(store') = Cardinality(store)
        /\ \A r \in store :
             IF r.domain \in Range(res'.renewal.successful)
               THEN LET reported == {calls'[i].date : i \in {j \in DOMAIN calls' :
                                       /\ calls'[j].fn = "getCertificateExpiry"
                                       /\ calls'[j].domain = r.domain
                                       /\ calls'[j].date # NoDate}}
                    IN  IF reported = {} THEN r \in store'
                        ELSE \E d \in reported : [r EXCEPT !.sslExpiry = d] \in store'
             ELSE r \in store'
        /\ res'.op = "renewSSL" =>
             IF FindOne(store, res'.domain) = {}
               THEN res'.status = 404 /\ calls' = << >>
             ELSE res'.status = 200 ]_vars

C34_Witness ==
  /\ res.op = "renewSSL"
  /\ res.renewal.skipped # << >>
  /\ \E i \in DOMAIN calls : calls[i].cmd = "certbot renew"
  /\ \E r \in store : r.domain = res.domain /\ r.sslExpiry = ExpiryWindowDays

\* C37: the server names of the generated configuration and the names of
\* the certificate request are the domain and its "www." form when the domain
\* has exactly two labels, and the domain alone otherwise.
C37_ApexNamesAgree ==
  res.op \in {"createNginxConfig", "issueSSLCertificate"} =>
    res.names = IF Len(res.domain) = 2 THEN {res.domain, <<"www">> \o res.domain}
                ELSE {res.domain}

C37_Witness ==
  /\ res.op = "issueSSLCertificate"
  /\ res.domain = <<"shop", "com">>
  /\ res.names = {<<"shop", "com">>, <<"www", "shop", "com">>}

\* C38: the normalization of the add route gives a domain that normalization
\* leaves as it is, and no stored domain begins with the label "www".
C38_NormalizeIdempotent ==
  /\ res.op = "addDomain" =>
       Normalize(Normalize(res.input[1])) = Normalize(res.input[1])
  /\ \A r \in store : r.domain[1] # "www"

\* C32: a createNginxConfig call whose own file is valid and whose reload
\* works returns true and its site is live, whatever earlier calls for other
\* domains did; a call that fails leaves the live configuration as it was.
C32_FailedValidationDoesNotPoison ==
  [][ res'.op = "createNginxConfig" =>
        /\ (res'.run.valid /\ res'.run.reload)
             => (res'.success /\ res'.domain \in server'.live)
        /\ ~res'.success => server'.live = server.live ]_vars

\* C36: createNginxConfig for a domain whose link exists removes the link and
\* makes it again: the link step does not fail, and the files and links are
\* the ones a single call leaves.
C36_InstallIdempotent ==
  [][ (res'.op = "createNginxConfig" /\ res'.domain \in server.links) =>
        /\ \A i \in DOMAIN calls' : calls'[i].cmd = "symlink" => calls'[i].ok
        /\ \E i \in DOMAIN calls' : calls'[i].cmd = "symlink"
        /\ server'.links = server.links
        /\ server'.sites = server.sites ]_vars

C36_Witness ==
  /\ res.op = "createNginxConfig"
  /\ res.run.existed
  /\ res.success
  /\ server.links = {res.domain}
  /\ server.sites = {res.domain}

\* C31: a pending check always comes to its end, whatever the processes it
\* runs do.
C31_PendingPassTerminates ==
  <>(procs["pending"].pc = "done")

\* the add request has stored its document
Inserted(p) ==
  procs[p].pc \in {"writeFile", "testNginxConfig", "reloadNginx", "issueSSLCertificate",
                   "getCertificateExpiry", "save", "done"}

Replied(p) == procs[p].pc \in {"done", "replied409", "replied500"}

\* C39: of two add requests for the same domain in progress together at most
\* one stores a record and runs createNginxConfig and issueSSLCertificate;
\* when both have answered there is exactly one record, one request has
\* succeeded and the other has been answered with an error.
C39_ConcurrentAddsOneRecord ==
  /\ Cardinality(store) <= 1
  /\ ~(Inserted("add1") /\ Inserted("add2"))
  /\ (Replied("add1") /\ Replied("add2")) =>
       /\ Cardinality(store) = 1
       /\ \E p \in AddProcs :
            /\ procs[p].pc = "done"
            /\ \A q \in AddProcs \ {p} : procs[q].pc \in {"replied409", "replied500"}

C39_Witness ==
  /\ procs["add1"].pc = "done"
  /\ procs["add2"].pc = "replied500"
  /\ \E r \in store : r.domain = D1 /\ r.nginxConfigured /\ r.ssl
  /\ D1 \in server.certs

\* C35: every start of the scheduler is followed by exactly one run of the
\* pending check and one run of the expiry audit started by its timer,
\* whatever the scheduled and the triggered runs do.
C35_InitialChecksOncePerStart ==
  /\ [](\A job \in {"pendingCheck", "sslCheck"} :
          sched.ran[job] + sched.due[job] + sched.timers = sched.starts)
  /\ \A n \in 1..MaxStarts :
       (sched.starts = n)
         ~> (\A job \in {"pendingCheck", "sslCheck"} : sched.ran[job] >= n)

C35_Witness ==
  /\ sched.starts = 1
  /\ sched.timers = 0
  /\ sched.ran = [pendingCheck |-> 1, sslCheck |-> 1]
  /\ res.op = "checkSSLCertificates"

\* a job is started in this step: by the timer, by a task or by triggerTask
JobOps == {"checkPendingDomains", "checkSSLCertificates", "renewSSLCertificates",
           "cleanupOldDomains"}

\* C40: no job is started while the service is not running: neither by a
\* task, nor by the timer of the initial checks, nor by triggerTask.
C40_NoJobWhileStopped ==
  [][ (\/ \E job \in DOMAIN sched.due : sched'.due[job] > sched.due[job]
       \/ (res.op = "idle" /\ res'.op \in JobOps /\ sched'.ran = sched.ran))
      => sched.isRunning ]_vars

====
